---- MODULE Spec2Model ----
(***************************************************************************)
(* Listener lifecycle of react-native-accessibility-services-detector:     *)
(* the JavaScript wrapper (AccessibilityServicesDetectorWrapper), the      *)
(* bridge that carries its native calls, and the Android native module     *)
(* (AccessibilityServicesDetectorModule.kt).                               *)
(*                                                                         *)
(* JavaScript runs one task at a time; a native call is put on the bridge, *)
(* executed later by the native module, and its promise is settled in a    *)
(* later JavaScript task.  Both directions of the bridge are FIFO.         *)
(***************************************************************************)
EXTENDS Integers, Sequences, FiniteSets, TLC

\* ---------------------------------------------------------------- bounds
MaxSubs == 2        \* number of addAccessibilityServicesListener calls
MaxRemoves == 2     \* remove() calls made by the caller on one subscription
MaxInFlight == 2    \* native calls the caller lets be outstanding at once
MaxCallbacks == 3   \* callbacks offered to the event emitter in SpecFanOut
MaxEvents == 1      \* change events on their way to JavaScript at once
MaxServices == 2    \* accessibility services the OS reports as enabled
MaxCustom == 2      \* custom package names in the manifest meta-data
MaxExisting == 2    \* <queries> packages the manifest holds before the plugin
MaxRuns == 2        \* runs of the config plugin on one manifest

\* ------------------------------------------------------ program constants
TIRAMISU == 33      \* Build.VERSION_CODES.TIRAMISU

Subs == 1..MaxSubs

VARIABLES
  platform,       \* Platform.OS
  sdkInt,         \* Build.VERSION.SDK_INT
  listenerCount,  \* wrapper: private listenerCount
  listeners,      \* wrapper: private listeners (sequence of subscriptions)
  registered,     \* eventEmitter: subscriptions whose callback is attached
  pc,             \* position of each addAccessibilityServicesListener call
  removeCalls,    \* remove() calls the caller has made on each subscription
  nativeQ,        \* native calls issued by JavaScript, not yet executed
  respQ,          \* promise settlements on their way back to JavaScript
  isListening,    \* native module: isListening
  handle,         \* native module: accessibilityServicesStateChangeListener
  osListeners,    \* listeners registered with the AccessibilityManager
  osThrows,       \* whether calls into the AccessibilityManager can throw
  destroyed,      \* onCatalystInstanceDestroy has run
  manual,         \* startListening()/stopListening() of the wrapper was called
  raised,         \* the error the step just taken raised to a caller
  fanRegs,        \* eventEmitter: attached callbacks, in registration order
  fanThrows,      \* the callbacks that throw when they are invoked
  fanCalls,       \* the callbacks the latest emit invoked, in order
  fanEscaped,     \* whether an exception left the latest emit
  idleStop,       \* the stopListening() in flight was called with nothing in
                  \* flight, the monitor disarmed and no subscription, and
                  \* only its own native call has run since
  osEnabled,      \* OS: whether an accessibility service is enabled
  eventQ,         \* AccessibilityServicesChanged events emitted, not yet
                  \* dispatched in JavaScript (each holds its snapshot)
  osServices,     \* OS: the enabled accessibility services, in the order
                  \* getEnabledAccessibilityServiceList returns them
  enumThrows,     \* OS: getEnabledAccessibilityServiceList throws
  launchFails,    \* OS: startActivity for the settings screen throws
  feedbackType,   \* OS: AccessibilityServiceInfo.feedbackType of a service
  customPackages, \* manifest meta-data: the custom package names
  installedPkgs,  \* OS: the packages getPackageGids finds
  unresolvable,   \* OS: the packages for which getApplicationInfo throws
  qResult,        \* what the latest query handed to its caller
  manifest,       \* config plugin: the AndroidManifest being modified
  options,        \* config plugin: the plugin options
  runs            \* config plugin: how often it has run on the manifest

vars == <<platform, sdkInt, osThrows, destroyed, listenerCount, listeners, registered, pc,
          removeCalls, nativeQ, respQ, isListening, handle, osListeners,
          manual, raised, fanRegs, fanThrows, fanCalls, fanEscaped,
          idleStop, osEnabled, eventQ, osServices, enumThrows, launchFails,
          feedbackType, customPackages, installedPkgs, unresolvable, qResult,
          manifest, options, runs>>

jsVars == <<listenerCount, listeners, registered>>
nativeVars == <<isListening, handle, osListeners>>
envVars == <<platform, sdkInt, osThrows, destroyed>>
fanVars == <<fanRegs, fanThrows, fanCalls, fanEscaped>>
eventVars == <<fanRegs, fanThrows, osEnabled, eventQ>>
deviceEnv == <<osServices, enumThrows, launchFails, feedbackType, customPackages,
               installedPkgs, unresolvable>>
pluginVars == <<manifest, options, runs>>
queryEnv == <<deviceEnv, pluginVars>>
queryVars == <<queryEnv, qResult>>
wrapperVars == <<envVars, jsVars, nativeVars, pc, removeCalls, nativeQ, respQ,
                 manual, raised, idleStop>>
lifecycleVars == <<wrapperVars, queryVars>>

\* ------------------------------------------------------------- helpers
Android == platform = "android"

\* No subscription exists: no callback is attached and no add is under way.
NoSubscription ==
  /\ registered = {}
  /\ \A s \in Subs : pc[s] # "arming"

\* The step dispatches no event to the callbacks.
NoDispatch == fanCalls' = <<>> /\ fanEscaped' = FALSE

NULL == 0

\* No query has been made, on a device with nothing to report.
NoResult == [op |-> "none", bound |-> TRUE, status |-> "none", value |-> <<>>]

\* A manifest with an application element, no <queries> package and no
\* meta-data; the plugin has not run.
PluginIdle ==
  /\ manifest = [queries |-> <<>>, application |-> TRUE, metaData |-> <<>>]
  /\ options = [customPackages |-> <<>>]
  /\ runs = 0

QueryIdle ==
  /\ PluginIdle
  /\ osServices = <<>>
  /\ enumThrows = FALSE
  /\ launchFails = FALSE
  /\ feedbackType = 0
  /\ customPackages = <<>>
  /\ installedPkgs = {}
  /\ unresolvable = {}
  /\ qResult = NoResult

Call(op, by, sub) == [op |-> op, by |-> by, sub |-> sub]
Resp(c, ok) == [op |-> c.op, by |-> c.by, sub |-> c.sub, ok |-> ok]

InFlight == Len(nativeQ) + Len(respQ)

\* A new listener object: distinct from every registered one (the object the
\* handle referred to before is unreachable once the handle is overwritten).
NewListener ==
  CHOOSE i \in 1..(Cardinality(osListeners) + 1) :
    /\ i \notin osListeners
    /\ \A j \in 1..(i - 1) : j \in osListeners

\* getListenerCount()
getListenerCount == IF platform # "android" THEN 0 ELSE listenerCount

\* getIsListening()
getIsListening == IF platform # "android" THEN FALSE ELSE isListening

Init ==
  /\ platform \in {"android", "ios"}
  /\ sdkInt \in {TIRAMISU - 1, TIRAMISU}
  /\ osThrows \in BOOLEAN
  /\ destroyed = FALSE
  /\ listenerCount = 0
  /\ listeners = <<>>
  /\ registered = {}
  /\ pc = [s \in Subs |-> "idle"]
  /\ removeCalls = [s \in Subs |-> 0]
  /\ nativeQ = <<>>
  /\ respQ = <<>>
  /\ isListening = FALSE
  /\ handle = NULL
  /\ osListeners = {}
  /\ manual = FALSE
  /\ raised = "none"
  /\ fanRegs = <<>>
  /\ fanThrows = {}
  /\ fanCalls = <<>>
  /\ fanEscaped = FALSE
  /\ idleStop = FALSE
  /\ osEnabled = FALSE
  /\ eventQ = <<>>
  /\ QueryIdle

\* ------------------------------------------------- the wrapped remove()
\* subscription.remove as replaced by addAccessibilityServicesListener:
\* originalRemove(); listenerCount--; if it is now 0, fire a native
\* stopListening without awaiting it.  Written as a function of the
\* JavaScript state so that stopListening's forEach can fold over it.
RemoveCount(cnt) == cnt - 1

RemoveFires(cnt) == RemoveCount(cnt) = 0

WrappedRemove_KeepsAttached(st, s) ==
  [cnt |-> RemoveCount(st.cnt),
   reg |-> st.reg,
   q   |-> IF RemoveFires(st.cnt)
             THEN Append(st.q, Call("stop", "remove", 0))
             ELSE st.q]

WrappedRemove(st, s) ==
  [cnt |-> RemoveCount(st.cnt),
   reg |-> st.reg \ {s},
   q   |-> IF RemoveFires(st.cnt)
             THEN Append(st.q, Call("stop", "remove", 0))
             ELSE st.q]

\* this.listeners.forEach((listener) => listener.remove())
RECURSIVE RemoveAll(_, _)
RemoveAll(st, ls) ==
  IF ls = <<>> THEN st
  ELSE RemoveAll(WrappedRemove(st, Head(ls)), Tail(ls))

\* ---------------------------------------------------- wrapper operations
\* A variant of AddSettle whose failure path still creates the subscription
\* (the try/catch closed right after the await).
AddSettle_IgnoresFailure(st, s, ok) ==
  [cnt |-> st.cnt + 1, ls |-> Append(st.ls, s), reg |-> st.reg \cup {s},
   ret |-> IF ok THEN "returned" ELSE "null"]

\* The rest of addAccessibilityServicesListener once the arm has settled:
\* on success attach the callback, keep the subscription and count it; on
\* failure the catch block returns null and nothing is touched.
AddSettle(st, s, ok) ==
  IF ok
    THEN [cnt |-> st.cnt + 1, ls |-> Append(st.ls, s), reg |-> st.reg \cup {s},
          ret |-> "returned"]
    ELSE [cnt |-> st.cnt, ls |-> st.ls, reg |-> st.reg, ret |-> "null"]

\* addAccessibilityServicesListener up to its first await (or to its end
\* when nothing is awaited).  Subscriptions are numbered in the order of the
\* calls that create them.
AddListener_CountsBeforeArm(s) ==
  /\ pc[s] = "idle"
  /\ \A t \in Subs : t < s => pc[t] # "idle"
  /\ IF platform # "android"
       THEN /\ pc' = [pc EXCEPT ![s] = "null"]
            /\ UNCHANGED <<jsVars, nativeQ>>
       ELSE LET st == AddSettle([cnt |-> listenerCount, ls |-> listeners,
                                 reg |-> registered], s, TRUE)
            IN /\ listenerCount' = st.cnt
               /\ listeners' = st.ls
               /\ registered' = st.reg
               /\ IF listenerCount = 0
                    THEN /\ InFlight < MaxInFlight
                         /\ nativeQ' = Append(nativeQ, Call("start", "add", s))
                         /\ pc' = [pc EXCEPT ![s] = "arming"]
                    ELSE /\ pc' = [pc EXCEPT ![s] = st.ret]
                         /\ UNCHANGED nativeQ
  /\ raised' = "none"
  /\ NoDispatch
  /\ idleStop' = FALSE
  /\ UNCHANGED <<eventVars, envVars, queryVars, removeCalls, respQ, nativeVars, manual>>

AddListener(s) ==
  /\ pc[s] = "idle"
  /\ \A t \in Subs : t < s => pc[t] # "idle"
  /\ IF platform # "android"
       THEN /\ pc' = [pc EXCEPT ![s] = "null"]
            /\ UNCHANGED <<jsVars, nativeQ>>
       ELSE IF listenerCount = 0
         THEN /\ InFlight < MaxInFlight
              /\ nativeQ' = Append(nativeQ, Call("start", "add", s))
              /\ pc' = [pc EXCEPT ![s] = "arming"]
              /\ UNCHANGED jsVars
         ELSE LET st == AddSettle([cnt |-> listenerCount, ls |-> listeners,
                                   reg |-> registered], s, TRUE)
              IN /\ listenerCount' = st.cnt
                 /\ listeners' = st.ls
                 /\ registered' = st.reg
                 /\ pc' = [pc EXCEPT ![s] = st.ret]
                 /\ UNCHANGED nativeQ
  /\ raised' = "none"
  /\ NoDispatch
  /\ idleStop' = FALSE
  /\ UNCHANGED <<eventVars, envVars, queryVars, removeCalls, respQ, nativeVars, manual>>

\* addAccessibilityServicesListener after `await startListening()`.
AddResume ==
  /\ respQ # <<>>
  /\ Head(respQ).by = "add"
  /\ LET r == Head(respQ)
         st == AddSettle([cnt |-> listenerCount, ls |-> listeners,
                          reg |-> registered], r.sub, r.ok)
     IN /\ listenerCount' = st.cnt
        /\ listeners' = st.ls
        /\ registered' = st.reg
        /\ pc' = [pc EXCEPT ![r.sub] = st.ret]
  /\ respQ' = Tail(respQ)
  /\ raised' = "none"
  /\ NoDispatch
  /\ idleStop' = FALSE
  /\ UNCHANGED <<eventVars, envVars, queryVars, removeCalls, nativeQ, nativeVars, manual>>

\* subscription.remove() / removeAccessibilityServicesListener(subscription)
\* called by the holder of the token.
Remove(s) ==
  /\ pc[s] = "returned"
  /\ removeCalls[s] < MaxRemoves
  /\ removeCalls' = [removeCalls EXCEPT ![s] = @ + 1]
  /\ IF platform # "android"
       THEN UNCHANGED <<jsVars, nativeQ>>
       ELSE LET st == WrappedRemove([cnt |-> listenerCount,
                                     reg |-> registered,
                                     q |-> nativeQ], s)
            IN /\ RemoveFires(listenerCount) => InFlight < MaxInFlight
               /\ listenerCount' = st.cnt
               /\ registered' = st.reg
               /\ nativeQ' = st.q
               /\ UNCHANGED listeners
  /\ raised' = "none"
  /\ NoDispatch
  /\ idleStop' = FALSE
  /\ UNCHANGED <<eventVars, envVars, queryVars, pc, respQ, nativeVars, manual>>

\* The wrapper's startListening(): hands back the native promise.
StartListening ==
  /\ manual' = TRUE
  /\ IF platform # "android"
       THEN UNCHANGED nativeQ
       ELSE /\ InFlight < MaxInFlight
            /\ nativeQ' = Append(nativeQ, Call("start", "startW", 0))
  /\ raised' = "none"
  /\ NoDispatch
  /\ idleStop' = FALSE
  /\ UNCHANGED <<eventVars, envVars, queryVars, jsVars, pc, removeCalls, respQ, nativeVars>>

\* The wrapper's stopListening() up to `await stopListening()`.
StopListening ==
  /\ manual' = TRUE
  /\ IF platform # "android"
       THEN UNCHANGED nativeQ
       ELSE /\ InFlight < MaxInFlight
            /\ nativeQ' = Append(nativeQ, Call("stop", "stopW", 0))
  /\ raised' = "none"
  /\ NoDispatch
  /\ idleStop' = (Android /\ InFlight = 0 /\ ~isListening /\ NoSubscription)
  /\ UNCHANGED <<eventVars, envVars, queryVars, jsVars, pc, removeCalls, respQ, nativeVars>>

\* A variant of Teardown that forgets `this.listenerCount = 0`.
Teardown_NoReset(st, ls) ==
  LET after == RemoveAll(st, ls)
  IN [cnt |-> after.cnt, ls |-> <<>>, reg |-> after.reg, q |-> after.q]

\* stopListening's success path: listeners.forEach(remove), then
\* this.listeners = [] and this.listenerCount = 0.
Teardown(st, ls) ==
  LET after == RemoveAll(st, ls)
  IN [cnt |-> 0, ls |-> <<>>, reg |-> after.reg, q |-> after.q]

\* A variant of StopOutcome that swallows the failure.
StopOutcome_Swallows(ok) == "none"

\* What stopListening() hands its caller: `return Promise.resolve()` after
\* the teardown, `return Promise.reject(error)` from the catch block.
StopOutcome(ok) == IF ok THEN "none" ELSE "stopListening"

\* The wrapper's stopListening() after the await: on success remove every
\* held subscription, clear the array and the count; on failure reject.
StopResume ==
  /\ respQ # <<>>
  /\ Head(respQ).by = "stopW"
  /\ IF Head(respQ).ok
       THEN LET st == Teardown([cnt |-> listenerCount,
                                reg |-> registered,
                                q |-> nativeQ], listeners)
            IN /\ registered' = st.reg
               /\ nativeQ' = st.q
               /\ listeners' = st.ls
               /\ listenerCount' = st.cnt
       ELSE UNCHANGED <<jsVars, nativeQ>>
  /\ respQ' = Tail(respQ)
  /\ raised' = StopOutcome(Head(respQ).ok)
  /\ NoDispatch
  /\ idleStop' = FALSE
  /\ UNCHANGED <<eventVars, envVars, queryVars, pc, removeCalls, nativeVars, manual>>

\* A variant of DetachedOutcome for a remove() that attaches no .catch: the
\* rejection of its stopListening escapes.
DetachedOutcome_NoCatch(by, ok) ==
  IF ok THEN "none" ELSE IF by = "startW" THEN "startListening" ELSE "remove"

\* What such a settlement raises: startListening() returned the native
\* promise itself, so its rejection is the caller's; remove() attached
\* .then/.catch handlers that only log.
DetachedOutcome(by, ok) ==
  IF by = "startW" /\ ~ok THEN "startListening" ELSE "none"

\* Settlement of a native promise nobody awaits in the wrapper: the
\* .then/.catch of remove()'s stopListening and startListening()'s promise.
SettleDetached ==
  /\ respQ # <<>>
  /\ Head(respQ).by \in {"remove", "startW"}
  /\ respQ' = Tail(respQ)
  /\ raised' = DetachedOutcome(Head(respQ).by, Head(respQ).ok)
  /\ NoDispatch
  /\ idleStop' = FALSE
  /\ UNCHANGED <<eventVars, envVars, queryVars, jsVars, pc, removeCalls, nativeQ, nativeVars,
                 manual>>

\* ------------------------------------------------------- native module
\* if (isListening) { promise.resolve(null); return }
AlreadyListening_Never == FALSE

AlreadyListening == isListening

\* isListening = true, once the listener is registered
ArmedFlag_NotSet == FALSE

ArmedFlag == TRUE

\* A variant that takes the primitive to exist on every API level.
HasMonitorPrimitive_Always == TRUE

\* if (Build.VERSION.SDK_INT >= Build.VERSION_CODES.TIRAMISU)
HasMonitorPrimitive == sdkInt >= TIRAMISU

\* @ReactMethod startListening(promise)
NativeStartListening ==
  /\ nativeQ # <<>>
  /\ Head(nativeQ).op = "start"
  /\ LET c == Head(nativeQ)
     IN \/ \* already listening: resolve
           /\ AlreadyListening
           /\ respQ' = Append(respQ, Resp(c, TRUE))
           /\ UNCHANGED nativeVars
        \/ \* getSystemService throws: reject
           /\ ~AlreadyListening
           /\ osThrows
           /\ respQ' = Append(respQ, Resp(c, FALSE))
           /\ UNCHANGED nativeVars
        \/ \* the listener is created and registered
           /\ ~AlreadyListening
           /\ HasMonitorPrimitive
           /\ handle' = NewListener
           /\ osListeners' = osListeners \cup {NewListener}
           /\ isListening' = ArmedFlag
           /\ respQ' = Append(respQ, Resp(c, TRUE))
        \/ \* the listener is created, registering it throws: reject
           /\ ~AlreadyListening
           /\ osThrows
           /\ HasMonitorPrimitive
           /\ handle' = NewListener
           /\ respQ' = Append(respQ, Resp(c, FALSE))
           /\ UNCHANGED <<osListeners, isListening>>
        \/ \* below API 33: warn and resolve
           /\ ~AlreadyListening
           /\ ~HasMonitorPrimitive
           /\ respQ' = Append(respQ, Resp(c, TRUE))
           /\ UNCHANGED nativeVars
  /\ nativeQ' = Tail(nativeQ)
  /\ raised' = "none"
  /\ NoDispatch
  /\ idleStop' = FALSE
  /\ UNCHANGED <<eventVars, envVars, queryVars, jsVars, pc, removeCalls, manual>>

\* @ReactMethod stopListening(promise)
NativeStopListening ==
  /\ nativeQ # <<>>
  /\ Head(nativeQ).op = "stop"
  /\ LET c == Head(nativeQ)
     IN \/ \* not listening: resolve
           /\ ~isListening \/ handle = NULL
           /\ respQ' = Append(respQ, Resp(c, TRUE))
           /\ UNCHANGED nativeVars
        \/ \* the listener is unregistered (only from API 33) and dropped
           /\ isListening /\ handle # NULL
           /\ osListeners' = IF sdkInt >= TIRAMISU
                               THEN osListeners \ {handle}
                               ELSE osListeners
           /\ handle' = NULL
           /\ isListening' = FALSE
           /\ respQ' = Append(respQ, Resp(c, TRUE))
        \/ \* getSystemService or the unregistration throws: reject
           /\ isListening /\ handle # NULL
           /\ osThrows
           /\ sdkInt >= TIRAMISU
           /\ respQ' = Append(respQ, Resp(c, FALSE))
           /\ UNCHANGED nativeVars
  /\ nativeQ' = Tail(nativeQ)
  /\ raised' = "none"
  /\ NoDispatch
  /\ UNCHANGED idleStop
  /\ UNCHANGED <<eventVars, envVars, queryVars, jsVars, pc, removeCalls, manual>>

Next ==
  \/ \E s \in Subs : AddListener(s)
  \/ AddResume
  \/ \E s \in Subs : Remove(s)
  \/ StartListening
  \/ StopListening
  \/ StopResume
  \/ SettleDetached
  \/ NativeStartListening
  \/ NativeStopListening

Spec == Init /\ [][Next]_vars

TypeOK ==
  /\ platform \in {"android", "ios"}
  /\ sdkInt \in {TIRAMISU - 1, TIRAMISU}
  /\ osThrows \in BOOLEAN
  /\ destroyed \in BOOLEAN
  /\ listenerCount \in Int
  /\ \A i \in 1..Len(listeners) : listeners[i] \in Subs
  /\ registered \subseteq Subs
  /\ pc \in [Subs -> {"idle", "arming", "returned", "null"}]
  /\ removeCalls \in [Subs -> 0..MaxRemoves]
  /\ \A i \in 1..Len(nativeQ) : nativeQ[i].op \in {"start", "stop"}
  /\ \A i \in 1..Len(respQ) : respQ[i].ok \in BOOLEAN
  /\ isListening \in BOOLEAN
  /\ handle \in Nat
  /\ osListeners \subseteq Nat
  /\ manual \in BOOLEAN
  /\ raised \in {"none", "startListening", "stopListening"}
  /\ idleStop \in BOOLEAN

\* --------------------------------------------- remove() followed by add
\* The caller's sequence `sub.remove(); addAccessibilityServicesListener(cb)`
\* repeated: the next add is called only after remove() has been called on
\* every earlier subscription.  The native calls are executed and settled
\* in the order they were issued.
RemoveThenAdd(s) ==
  /\ \A t \in Subs : t < s => removeCalls[t] >= 1
  /\ AddListener(s)

NextRearm ==
  \/ \E s \in Subs : RemoveThenAdd(s)
  \/ AddResume
  \/ \E s \in Subs : Remove(s)
  \/ SettleDetached
  \/ NativeStartListening
  \/ NativeStopListening

SpecRearm == Init /\ [][NextRearm]_vars

\* ------------------------------------------------------ process teardown
\* onCatalystInstanceDestroy: unregister the listener if the module is
\* listening and holds one; every exception is caught and logged.  The
\* JavaScript side is gone afterwards.
OnCatalystInstanceDestroy ==
  /\ ~destroyed
  /\ destroyed' = TRUE
  /\ \/ \* nothing to clean up
        /\ ~isListening \/ handle = NULL
        /\ UNCHANGED nativeVars
     \/ \* the listener is unregistered (only from API 33) and dropped
        /\ isListening /\ handle # NULL
        /\ osListeners' = IF sdkInt >= TIRAMISU
                            THEN osListeners \ {handle}
                            ELSE osListeners
        /\ handle' = NULL
        /\ isListening' = FALSE
     \/ \* getSystemService or the unregistration throws: caught and logged
        /\ isListening /\ handle # NULL
        /\ osThrows
        /\ sdkInt >= TIRAMISU
        /\ UNCHANGED nativeVars
  /\ raised' = "none"
  /\ NoDispatch
  /\ idleStop' = FALSE
  /\ UNCHANGED <<eventVars, platform, sdkInt, osThrows, queryVars, jsVars, pc,
                 removeCalls, nativeQ, respQ, manual>>

NextDestroy ==
  \/ ~destroyed /\ Next
  \/ OnCatalystInstanceDestroy

SpecDestroy == Init /\ [][NextDestroy]_vars

\* ------------------------------------------------------------- queries
\* The bits of AccessibilityServiceInfo.feedbackType, lowest first:
\* FEEDBACK_SPOKEN = 1, HAPTIC = 2, AUDIBLE = 4, VISUAL = 8, GENERIC = 16,
\* BRAILLE = 32.
FeedbackBits == <<0, 1, 2, 3, 4, 5>>

\* Every combination of the six feedback bits.
FeedbackTypes == 0..(2 ^ Len(FeedbackBits) - 1)

BitSet(n, k) == (n \div (2 ^ k)) % 2 = 1

SetBits(n) == SelectSeq(FeedbackBits, LAMBDA k : BitSet(n, k))

\* private fun getFeedbackTypeNames(feedbackType): one names.add per set
\* bit, in the order of the ifs, and "None" when the list stayed empty.
FeedbackLabels == <<"Spoken", "Haptic", "Audible", "Visual", "Generic", "Braille">>

getFeedbackTypeNames(ft) ==
  LET names == [i \in 1..Len(SetBits(ft)) |-> FeedbackLabels[SetBits(ft)[i] + 1]]
  IN IF names = <<>> THEN <<"None">> ELSE names

\* AccessibilityServiceInfo.feedbackTypeToString(feedbackType), the platform
\* function createServiceInfoMap calls: the FEEDBACK_* constant names of the
\* set bits, lowest bit first, between brackets ("[]" when no bit is set).
\* The text is kept as the sequence of the names between the brackets.
FeedbackConstants ==
  <<"FEEDBACK_SPOKEN", "FEEDBACK_HAPTIC", "FEEDBACK_AUDIBLE", "FEEDBACK_VISUAL",
    "FEEDBACK_GENERIC", "FEEDBACK_BRAILLE">>

feedbackTypeToString(ft) ==
  [i \in 1..Len(SetBits(ft)) |-> FeedbackConstants[SetBits(ft)[i] + 1]]

\* getAppIconDataUrl: every failure is caught and gives null.
getAppIconDataUrl(svc) == IF svc.iconOk THEN "data:image/png;base64" ELSE "null"

\* createServiceInfoMap: the map of one enabled service; appIcon is put only
\* when a data URL was produced.
createServiceInfoMap(i, svc) ==
  IF getAppIconDataUrl(svc) # "null"
    THEN [id |-> i, feedbackTypeNames |-> feedbackTypeToString(feedbackType),
          appIcon |-> getAppIconDataUrl(svc)]
    ELSE [id |-> i, feedbackTypeNames |-> feedbackTypeToString(feedbackType)]

\* A variant in which a failed icon aborts the enumeration.
getEnabledAccessibilityServicesInfo_IconAborts ==
  IF enumThrows \/ \E i \in 1..Len(osServices) : ~osServices[i].iconOk
    THEN <<>>
  ELSE [i \in 1..Len(osServices) |-> createServiceInfoMap(i, osServices[i])]

\* getEnabledAccessibilityServicesInfo: the maps of the enabled services; an
\* exception of the AccessibilityManager is caught and logged, and the list
\* built so far (empty) is returned.
getEnabledAccessibilityServicesInfo ==
  IF enumThrows THEN <<>>
  ELSE [i \in 1..Len(osServices) |-> createServiceInfoMap(i, osServices[i])]

Settled(op, bound, status, value) ==
  [op |-> op, bound |-> bound, status |-> status, value |-> value]

\* @ReactMethod getEnabledAccessibilityServices(promise)
NativeGetEnabledAccessibilityServices(bound) ==
  Settled("getEnabledAccessibilityServices", bound, "resolved",
          getEnabledAccessibilityServicesInfo)

\* A variant that asks the OS list itself whether it is empty.
NativeHasEnabledAccessibilityServices_OwnCheck(bound) ==
  Settled("hasEnabledAccessibilityServices", bound, "resolved",
          osServices # <<>>)

\* @ReactMethod hasEnabledAccessibilityServices(promise)
NativeHasEnabledAccessibilityServices(bound) ==
  Settled("hasEnabledAccessibilityServices", bound, "resolved",
          getEnabledAccessibilityServicesInfo # <<>>)

\* `this._logNotImplementedForPlatform()` in an async method: called on the
\* wrapper it logs; called through the exported constant, which holds the
\* method without its object, `this` is undefined and the call rejects with
\* a TypeError.
LogNotImplemented(op, bound, identity) ==
  IF bound THEN Settled(op, bound, "resolved", identity)
  ELSE Settled(op, bound, "rejected", "TypeError")

\* The wrapper's getEnabledAccessibilityServices, as a method (bound) or as
\* the exported constant.
getEnabledAccessibilityServices(bound) ==
  IF platform # "android"
    THEN LogNotImplemented("getEnabledAccessibilityServices", bound, <<>>)
    ELSE NativeGetEnabledAccessibilityServices(bound)

\* The wrapper's hasEnabledAccessibilityServices, likewise.
hasEnabledAccessibilityServices(bound) ==
  IF platform # "android"
    THEN LogNotImplemented("hasEnabledAccessibilityServices", bound, FALSE)
    ELSE NativeHasEnabledAccessibilityServices(bound)

\* A call of getEnabledAccessibilityServices.
GetEnabledAccessibilityServices(bound) ==
  /\ qResult' = getEnabledAccessibilityServices(bound)
  /\ UNCHANGED <<wrapperVars, fanVars, osEnabled, eventQ, queryEnv>>

\* A call of hasEnabledAccessibilityServices.
HasEnabledAccessibilityServices(bound) ==
  /\ qResult' = hasEnabledAccessibilityServices(bound)
  /\ UNCHANGED <<wrapperVars, fanVars, osEnabled, eventQ, queryEnv>>

\* @ReactMethod openAccessibilitySettings(): builds the intent and calls
\* context.startActivity(intent), with no try around it.
openAccessibilitySettings ==
  IF launchFails
    THEN Settled("openAccessibilitySettings", TRUE, "thrown",
                 "startActivity")
    ELSE Settled("openAccessibilitySettings", TRUE, "returned", <<>>)

OpenAccessibilitySettings ==
  /\ Android
  /\ qResult' = openAccessibilitySettings
  /\ UNCHANGED <<wrapperVars, fanVars, osEnabled, eventQ, queryEnv>>

\* The public operations of the wrapper on a platform other than Android.
InitUnsupported ==
  /\ Init
  /\ platform = "ios"

NextUnsupported ==
  \/ \E s \in Subs : AddListener(s)
  \/ StartListening
  \/ StopListening
  \/ \E bound \in BOOLEAN : GetEnabledAccessibilityServices(bound)
  \/ \E bound \in BOOLEAN : HasEnabledAccessibilityServices(bound)

SpecUnsupported == InitUnsupported /\ [][NextUnsupported]_vars

\* The queries alone, on every device: any list of enabled services whose
\* icons resolve or not, an AccessibilityManager that throws or not, a
\* settings screen that opens or not.
Services ==
  UNION {[1..n -> [iconOk : BOOLEAN]] : n \in 0..MaxServices}

InitQueries ==
  /\ platform \in {"android", "ios"}
  /\ sdkInt = TIRAMISU
  /\ osThrows = FALSE
  /\ destroyed = FALSE
  /\ listenerCount = 0
  /\ listeners = <<>>
  /\ registered = {}
  /\ pc = [s \in Subs |-> "idle"]
  /\ removeCalls = [s \in Subs |-> 0]
  /\ nativeQ = <<>>
  /\ respQ = <<>>
  /\ isListening = FALSE
  /\ handle = NULL
  /\ osListeners = {}
  /\ manual = FALSE
  /\ raised = "none"
  /\ fanRegs = <<>>
  /\ fanThrows = {}
  /\ fanCalls = <<>>
  /\ fanEscaped = FALSE
  /\ idleStop = FALSE
  /\ osEnabled = FALSE
  /\ eventQ = <<>>
  /\ osServices \in Services
  /\ enumThrows \in BOOLEAN
  /\ launchFails \in BOOLEAN
  /\ feedbackType \in FeedbackTypes
  /\ customPackages = <<>>
  /\ installedPkgs = {}
  /\ unresolvable = {}
  /\ qResult = NoResult
  /\ PluginIdle

NextQueries ==
  \/ \E bound \in BOOLEAN : GetEnabledAccessibilityServices(bound)
  \/ \E bound \in BOOLEAN : HasEnabledAccessibilityServices(bound)
  \/ OpenAccessibilitySettings

SpecQueries == InitQueries /\ [][NextQueries]_vars

\* ------------------------------------------------- remote access apps
\* RemoteAccessApps.DEFAULT_REMOTE_ACCESS_APPS
DEFAULT_REMOTE_ACCESS_APPS ==
  <<"com.teamviewer.teamviewer.market.mobile",
    "com.teamviewer.quicksupport.market",
    "com.teamviewer.host.market",
    "com.anydesk.anydeskandroid",
    "com.rsupport.mvagent",
    "com.airdroid.mirroring",
    "com.sand.aircast",
    "com.sand.airmirror",
    "com.sand.airsos",
    "com.sand.aircasttv",
    "com.remotepc.viewer",
    "com.google.android.apps.chromeremotedesktop",
    "com.microsoft.rdc.android",
    "com.microsoft.intune",
    "com.realvnc.viewer.android",
    "com.iiordanov.bVNC",
    "com.logmein.rescue.mobileconsole",
    "com.airwatch.rm.agent.cloud",
    "com.splashtop.streamer.csrs",
    "com.splashtop.sos",
    "net.soti.mobicontrol.androidwork">>

Contains(apps, packageName) ==
  \E i \in 1..Len(apps) : apps[i] = packageName

\* A variant of the forEach body that adds without looking.
AddCustom_NoCheck(allApps, packageName) == Append(allApps, packageName)

\* customPackages.forEach: add the package unless allApps already has it.
AddCustom(allApps, packageName) ==
  IF ~Contains(allApps, packageName)
    THEN Append(allApps, packageName)
    ELSE allApps

RECURSIVE AddAllCustom(_, _)
AddAllCustom(allApps, packages) ==
  IF packages = <<>> THEN allApps
  ELSE AddAllCustom(AddCustom(allApps, Head(packages)), Tail(packages))

\* RemoteAccessApps.getRemoteAccessApps(context)
getRemoteAccessApps == AddAllCustom(DEFAULT_REMOTE_ACCESS_APPS, customPackages)

\* isPackageInstalled: getPackageGids succeeds, or NameNotFoundException.
isPackageInstalled(packageName) == packageName \in installedPkgs

\* getApplicationInfo(packageName, 0).loadLabel(packageManager).toString()
Label(packageName) == <<"label of", packageName>>

\* The forEach of getInstalledRemoteAccessApps over the candidates: an
\* installed one gets its label as appName and is added; an exception of
\* the label lookup leaves the loop.
RECURSIVE Detect(_, _)
Detect(apps, detected) ==
  IF apps = <<>> THEN [threw |-> FALSE, apps |-> detected]
  ELSE IF ~isPackageInstalled(Head(apps)) THEN Detect(Tail(apps), detected)
  ELSE IF Head(apps) \in unresolvable THEN [threw |-> TRUE, apps |-> detected]
  ELSE Detect(Tail(apps),
              Append(detected, [packageName |-> Head(apps),
                                appName |-> Label(Head(apps))]))

\* private fun getInstalledRemoteAccessApps(packageManager): the detected
\* apps, or emptyList() when anything threw.
DetectedApps ==
  LET d == Detect(getRemoteAccessApps, <<>>)
  IN IF d.threw THEN <<>> ELSE d.apps

\* @ReactMethod getInstalledRemoteAccessApps(promise)
getInstalledRemoteAccessApps ==
  Settled("getInstalledRemoteAccessApps", TRUE, "resolved", DetectedApps)

GetInstalledRemoteAccessApps ==
  /\ Android
  /\ qResult' = getInstalledRemoteAccessApps
  /\ UNCHANGED <<wrapperVars, fanVars, osEnabled, eventQ, queryEnv>>

\* The packages the manifest may name: one of the seed list, two others.
CustomNames ==
  {"com.anydesk.anydeskandroid", "com.example.one", "com.example.two"}

\* The packages that may be installed on the device.
Probe == CustomNames \cup {"com.teamviewer.host.market"}

InitRemoteApps ==
  /\ platform = "android"
  /\ sdkInt = TIRAMISU
  /\ osThrows = FALSE
  /\ destroyed = FALSE
  /\ listenerCount = 0
  /\ listeners = <<>>
  /\ registered = {}
  /\ pc = [s \in Subs |-> "idle"]
  /\ removeCalls = [s \in Subs |-> 0]
  /\ nativeQ = <<>>
  /\ respQ = <<>>
  /\ isListening = FALSE
  /\ handle = NULL
  /\ osListeners = {}
  /\ manual = FALSE
  /\ raised = "none"
  /\ fanRegs = <<>>
  /\ fanThrows = {}
  /\ fanCalls = <<>>
  /\ fanEscaped = FALSE
  /\ idleStop = FALSE
  /\ osEnabled = FALSE
  /\ eventQ = <<>>
  /\ osServices = <<>>
  /\ enumThrows = FALSE
  /\ launchFails = FALSE
  /\ feedbackType = 0
  /\ customPackages \in UNION {[1..n -> CustomNames] : n \in 0..MaxCustom}
  /\ installedPkgs \in SUBSET Probe
  /\ unresolvable \in SUBSET installedPkgs
  /\ qResult = NoResult
  /\ PluginIdle

NextRemoteApps == GetInstalledRemoteAccessApps

SpecRemoteApps == InitRemoteApps /\ [][NextRemoteApps]_vars

\* ------------------------------------------------------ config plugin
\* REQUIRED_PACKAGES of the Expo config plugin
REQUIRED_PACKAGES ==
  <<"com.teamviewer.teamviewer.market.mobile",
    "com.teamviewer.quicksupport.market",
    "com.anydesk.anydeskandroid",
    "com.rsupport.mvagent",
    "com.airdroid.mirroring",
    "com.sand.aircast",
    "com.sand.airmirror",
    "com.sand.airsos",
    "com.sand.aircasttv",
    "com.remotepc.viewer",
    "com.google.android.apps.chromeremotedesktop",
    "com.microsoft.rdc.android",
    "com.microsoft.intune",
    "com.realvnc.viewer.android",
    "com.iiordanov.bVNC",
    "com.logmein.rescue.mobileconsole",
    "com.airwatch.rm.agent.cloud",
    "com.splashtop.streamer.csrs",
    "com.splashtop.sos",
    "net.soti.mobicontrol.androidwork">>

\* A text is the sequence of its characters.  A run of characters that are
\* neither a comma nor white space is kept as one item; the package names
\* the options may hold are spelled out here.
Chars(name) ==
  CASE name = "" -> <<>>
    [] name = " com.example.one" -> <<" ", "com.example.one">>
    [] name = "com.example.one,com.example.two" ->
         <<"com.example.one", ",", "com.example.two">>
    [] OTHER -> <<name>>

\* A variant of Join that separates the names with a blank.
Join_WithBlank(names) ==
  IF names = <<>> THEN <<>>
  ELSE LET RECURSIVE J(_)
           J(ns) == IF Len(ns) = 1 THEN Chars(Head(ns))
                    ELSE Chars(Head(ns)) \o <<" ">> \o J(Tail(ns))
       IN J(names)

\* customPackages.join(',')
Join(names) ==
  IF names = <<>> THEN <<>>
  ELSE LET RECURSIVE J(_)
           J(ns) == IF Len(ns) = 1 THEN Chars(Head(ns))
                    ELSE Chars(Head(ns)) \o <<",">> \o J(Tail(ns))
       IN J(names)

\* customPackagesString.split(',')
RECURSIVE Split(_, _)
Split(text, piece) ==
  IF text = <<>> THEN <<piece>>
  ELSE IF Head(text) = "," THEN <<piece>> \o Split(Tail(text), <<>>)
  ELSE Split(Tail(text), Append(piece, Head(text)))

\* it.trim()
RECURSIVE Trim(_)
Trim(text) ==
  IF text = <<>> THEN text
  ELSE IF Head(text) = " " THEN Trim(Tail(text))
  ELSE IF text[Len(text)] = " " THEN Trim(SubSeq(text, 1, Len(text) - 1))
  ELSE text

\* RemoteAccessApps.getCustomPackagesFromMetadata, given the value of the
\* meta-data entry (NoValue when the bundle has none): split on commas, trim
\* every piece, drop the empty ones.
NoValue == <<"null">>

getCustomPackagesFromMetadata(value) ==
  IF value = NoValue \/ value = <<>> THEN <<>>
  ELSE LET pieces == Split(value, <<>>)
           trimmed == [i \in 1..Len(pieces) |-> Trim(pieces[i])]
       IN SelectSeq(trimmed, LAMBDA piece : piece # <<>>)

\* getExistingPackageNames: the names in the <queries> element, without the
\* falsy ones (filter(Boolean)).
getExistingPackageNames(queries) ==
  {queries[i] : i \in 1..Len(queries)} \ {""}

\* getAllRequiredPackages(options)
getAllRequiredPackages(opts) == REQUIRED_PACKAGES \o opts.customPackages

\* addQueriesPackages: every wanted package that was not in the <queries>
\* element when the function started is pushed, in order.
addQueriesPackages(m, opts) ==
  LET existingPackages == getExistingPackageNames(m.queries)
      added == SelectSeq(getAllRequiredPackages(opts),
                         LAMBDA packageName : packageName \notin existingPackages)
  IN [m EXCEPT !.queries = m.queries \o added]

metadataName == "com.accessibilityservicesdetector.CUSTOM_PACKAGES"

\* createManifestMetaData(name, value)
createManifestMetaData(name, value) == [name |-> name, value |-> value]

\* metaDataArray.findIndex(...): the first entry of that name, 0 for none.
FindIndex(metaData, name) ==
  IF \E i \in 1..Len(metaData) : metaData[i].name = name
    THEN CHOOSE i \in 1..Len(metaData) :
           /\ metaData[i].name = name
           /\ \A j \in 1..(i - 1) : metaData[j].name # name
    ELSE 0

\* metaDataArray.splice(existingIndex, 1)
Splice(metaData, i) ==
  SubSeq(metaData, 1, i - 1) \o SubSeq(metaData, i + 1, Len(metaData))

\* A variant that pushes the new entry without removing the present one.
addCustomPackagesMetadata_KeepsExisting(m, opts) ==
  IF opts.customPackages = <<>> THEN m
  ELSE IF ~m.application THEN m
  ELSE [m EXCEPT !.metaData =
          Append(m.metaData,
                 createManifestMetaData(metadataName, Join(opts.customPackages)))]

\* addCustomPackagesMetadata: nothing without custom packages or without
\* an application element; otherwise the present entry is removed and the
\* new one pushed.
addCustomPackagesMetadata(m, opts) ==
  IF opts.customPackages = <<>> THEN m
  ELSE IF ~m.application THEN m
  ELSE LET existingIndex == FindIndex(m.metaData, metadataName)
           kept == IF existingIndex > 0 THEN Splice(m.metaData, existingIndex)
                   ELSE m.metaData
       IN [m EXCEPT !.metaData =
             Append(kept,
                    createManifestMetaData(metadataName, Join(opts.customPackages)))]

\* withAccessibilityServicesDetector: one run of the plugin on the manifest.
WithAccessibilityServicesDetector ==
  /\ runs < MaxRuns
  /\ manifest' = addCustomPackagesMetadata(addQueriesPackages(manifest, options),
                                           options)
  /\ runs' = runs + 1
  /\ UNCHANGED <<wrapperVars, fanVars, osEnabled, eventQ, deviceEnv, qResult, options>>

\* The names the plugin options may hold: one of REQUIRED_PACKAGES, one
\* other, and three that are empty, padded or hold a comma.
OptionNames ==
  {"com.anydesk.anydeskandroid", "com.example.one", "", " com.example.one",
   "com.example.one,com.example.two"}

\* The packages a manifest may already declare in <queries>.
DeclaredNames == {"com.anydesk.anydeskandroid", "com.example.one"}

\* The meta-data a manifest may already hold: another entry, and at most
\* one entry of the plugin's name, left by an earlier build.
OtherMetaData == createManifestMetaData("com.example.OTHER", <<"x">>)

EarlierMetaData == createManifestMetaData(metadataName, <<"com.example.old">>)

MetaDataLists ==
  {<<>>, <<OtherMetaData>>, <<EarlierMetaData>>,
   <<EarlierMetaData, OtherMetaData>>, <<OtherMetaData, EarlierMetaData>>}

InitPlugin ==
  /\ platform = "android"
  /\ sdkInt = TIRAMISU
  /\ osThrows = FALSE
  /\ destroyed = FALSE
  /\ listenerCount = 0
  /\ listeners = <<>>
  /\ registered = {}
  /\ pc = [s \in Subs |-> "idle"]
  /\ removeCalls = [s \in Subs |-> 0]
  /\ nativeQ = <<>>
  /\ respQ = <<>>
  /\ isListening = FALSE
  /\ handle = NULL
  /\ osListeners = {}
  /\ manual = FALSE
  /\ raised = "none"
  /\ fanRegs = <<>>
  /\ fanThrows = {}
  /\ fanCalls = <<>>
  /\ fanEscaped = FALSE
  /\ idleStop = FALSE
  /\ osEnabled = FALSE
  /\ eventQ = <<>>
  /\ osServices = <<>>
  /\ enumThrows = FALSE
  /\ launchFails = FALSE
  /\ feedbackType = 0
  /\ customPackages = <<>>
  /\ installedPkgs = {}
  /\ unresolvable = {}
  /\ qResult = NoResult
  /\ manifest \in
       [queries : UNION {[1..n -> DeclaredNames] : n \in 0..MaxExisting},
        application : BOOLEAN,
        metaData : MetaDataLists]
  /\ options \in
       [customPackages : UNION {[1..n -> OptionNames] : n \in 0..MaxCustom}]
  /\ runs = 0

NextPlugin == WithAccessibilityServicesDetector

SpecPlugin == InitPlugin /\ [][NextPlugin]_vars

\* ------------------------------------------------ fan-out of one event
\* The wrapper attaches the caller's callback to the NativeEventEmitter as it
\* is (eventEmitter.addListener('AccessibilityServicesChanged', callback)):
\* nothing in the wrapper stands between the emitter and the callback, so
\* what a throwing callback does to the others is what the emitter's loop
\* does: it calls the listeners one after the other, in registration order,
\* and an exception thrown by one of them leaves the loop.
Callbacks == 1..MaxCallbacks

Invoke(c, arg) == [cb |-> c, arg |-> arg]

RECURSIVE EmitTo(_, _, _)
EmitTo(regs, throwing, arg) ==
  IF regs = <<>> THEN [calls |-> <<>>, escaped |-> FALSE]
  ELSE IF Head(regs) \in throwing
    THEN [calls |-> <<Invoke(Head(regs), arg)>>, escaped |-> TRUE]
    ELSE LET rest == EmitTo(Tail(regs), throwing, arg)
         IN [calls |-> <<Invoke(Head(regs), arg)>> \o rest.calls,
             escaped |-> rest.escaped]

InitFanOut ==
  /\ platform = "android"
  /\ sdkInt = TIRAMISU
  /\ osThrows = FALSE
  /\ destroyed = FALSE
  /\ listenerCount = 0
  /\ listeners = <<>>
  /\ registered = {}
  /\ pc = [s \in Subs |-> "idle"]
  /\ removeCalls = [s \in Subs |-> 0]
  /\ nativeQ = <<>>
  /\ respQ = <<>>
  /\ isListening = FALSE
  /\ handle = NULL
  /\ osListeners = {}
  /\ manual = FALSE
  /\ raised = "none"
  /\ fanRegs = <<>>
  /\ fanThrows \in SUBSET Callbacks
  /\ fanCalls = <<>>
  /\ fanEscaped = FALSE
  /\ idleStop = FALSE
  /\ osEnabled = FALSE
  /\ eventQ = <<>>
  /\ QueryIdle

\* eventEmitter.addListener('AccessibilityServicesChanged', callback)
EmitterAddListener(c) ==
  /\ \A i \in 1..Len(fanRegs) : fanRegs[i] # c
  /\ fanRegs' = Append(fanRegs, c)
  /\ fanCalls' = <<>>
  /\ fanEscaped' = FALSE
  /\ UNCHANGED <<fanThrows, osEnabled, eventQ, lifecycleVars>>

\* originalRemove()
EmitterRemove(c) ==
  /\ \E i \in 1..Len(fanRegs) : fanRegs[i] = c
  /\ fanRegs' = SelectSeq(fanRegs, LAMBDA x : x # c)
  /\ fanCalls' = <<>>
  /\ fanEscaped' = FALSE
  /\ UNCHANGED <<fanThrows, osEnabled, eventQ, lifecycleVars>>

\* One AccessibilityServicesChanged event reaches the emitter.
EmitterEmit ==
  /\ fanRegs # <<>>
  /\ fanCalls' = EmitTo(fanRegs, fanThrows, osEnabled).calls
  /\ fanEscaped' = EmitTo(fanRegs, fanThrows, osEnabled).escaped
  /\ UNCHANGED <<fanRegs, fanThrows, osEnabled, eventQ, lifecycleVars>>

NextFanOut ==
  \/ \E c \in Callbacks : EmitterAddListener(c)
  \/ \E c \in Callbacks : EmitterRemove(c)
  \/ EmitterEmit

SpecFanOut == InitFanOut /\ [][NextFanOut]_vars

\* --------------------------------------- change events in the lifecycle
\* The callbacks attached to the emitter, in the order they were attached:
\* the wrapper pushes each subscription onto listeners right after attaching
\* it, and only stopListening() (which detaches them all) empties the array.
RegisteredInOrder == SelectSeq(listeners, LAMBDA s : s \in registered)

\* sendAccessibilityServicesChangedEvent, run once by every listener the
\* AccessibilityManager holds: it reads the enabled services and emits them.
RECURSIVE Emissions(_, _)
Emissions(ls, snapshot) ==
  IF ls = {} THEN <<>>
  ELSE LET l == CHOOSE x \in ls : TRUE
       IN <<snapshot>> \o Emissions(ls \ {l}, snapshot)

\* The OS enables or disables an accessibility service.
OsChange ==
  /\ Len(eventQ) + Cardinality(osListeners) <= MaxEvents
  /\ osEnabled' = ~osEnabled
  /\ eventQ' = eventQ \o Emissions(osListeners, osEnabled')
  /\ NoDispatch
  /\ idleStop' = FALSE
  /\ raised' = "none"
  /\ UNCHANGED <<fanRegs, fanThrows, envVars, queryVars, jsVars, nativeVars, pc,
                 removeCalls, nativeQ, respQ, manual>>

\* JavaScript dispatches one AccessibilityServicesChanged event.
DeliverEvent ==
  /\ eventQ # <<>>
  /\ LET r == EmitTo(RegisteredInOrder, fanThrows, Head(eventQ))
     IN /\ fanCalls' = r.calls
        /\ fanEscaped' = r.escaped
  /\ eventQ' = Tail(eventQ)
  /\ raised' = "none"
  /\ idleStop' = FALSE
  /\ UNCHANGED <<fanRegs, fanThrows, osEnabled, envVars, queryVars, jsVars, nativeVars,
                 pc, removeCalls, nativeQ, respQ, manual>>

\* The first remove() on a subscription.
RemoveOnce(s) == removeCalls[s] = 0 /\ Remove(s)

\* Android with the monitor primitive, OS calls that do not throw, and at
\* most one subscriber whose callback throws.
InitEvents ==
  /\ platform = "android"
  /\ sdkInt = TIRAMISU
  /\ osThrows = FALSE
  /\ destroyed = FALSE
  /\ listenerCount = 0
  /\ listeners = <<>>
  /\ registered = {}
  /\ pc = [s \in Subs |-> "idle"]
  /\ removeCalls = [s \in Subs |-> 0]
  /\ nativeQ = <<>>
  /\ respQ = <<>>
  /\ isListening = FALSE
  /\ handle = NULL
  /\ osListeners = {}
  /\ manual = FALSE
  /\ raised = "none"
  /\ fanRegs = <<>>
  /\ fanThrows \in {{}} \cup {{s} : s \in Subs}
  /\ fanCalls = <<>>
  /\ fanEscaped = FALSE
  /\ idleStop = FALSE
  /\ osEnabled = FALSE
  /\ eventQ = <<>>
  /\ QueryIdle

NextEvents ==
  \/ \E s \in Subs : AddListener(s)
  \/ AddResume
  \/ \E s \in Subs : RemoveOnce(s)
  \/ StartListening
  \/ StopListening
  \/ StopResume
  \/ SettleDetached
  \/ NativeStartListening
  \/ NativeStopListening
  \/ OsChange
  \/ DeliverEvent

SpecEvents == InitEvents /\ [][NextEvents]_vars

\* ================================================================ claims

\* Every issued native call has been executed and its promise settled.
Quiescent == nativeQ = <<>> /\ respQ = <<>>

\* Only addAccessibilityServicesListener and remove() have been called.
OnlyAddRemove == ~manual

\* Subscriptions handed to the caller on which remove() was never called.
NotYetRemoved == {s \in Subs : pc[s] = "returned" /\ removeCalls[s] = 0}

\* Subscriptions handed to the caller that a completed stopListening() has
\* destroyed: only stopListening() takes anything out of the listeners array.
tornDown ==
  {s \in Subs : pc[s] = "returned"
                /\ \A i \in 1..Len(listeners) : listeners[i] # s}

\* Native startListening calls issued and not yet settled.
StartsInFlight ==
  Cardinality({i \in 1..Len(nativeQ) : nativeQ[i].op = "start"})
  + Cardinality({i \in 1..Len(respQ) : respQ[i].op = "start"})

\* The caller calls remove() on subscription s in this step.
RemoveCalled(s) == removeCalls'[s] = removeCalls[s] + 1

\* C1: over sequences of add and remove() calls, getListenerCount() equals
\* the number of subscriptions returned and not yet removed.
C1_CountIsNotYetRemoved ==
  OnlyAddRemove => getListenerCount = Cardinality(NotYetRemoved)

\* C2: getListenerCount() is never negative.
C2_CountNonNegative == getListenerCount >= 0

\* C3: a second remove() on the same subscription changes neither
\* listenerCount nor the registered callbacks and issues no native call.
C3_SecondRemoveIsNoop ==
  [][\A s \in Subs :
       (removeCalls[s] >= 1 /\ RemoveCalled(s)) =>
         /\ listenerCount' = listenerCount
         /\ registered' = registered
         /\ nativeQ' = nativeQ]_vars

\* C4: after add and remove() calls only (each subscription removed at most
\* once, on a device that has the monitor primitive and where no OS call
\* throws), once every native call has settled, getIsListening() is true iff
\* getListenerCount() > 0.
C4_ListeningIffCounted ==
  (Android /\ sdkInt >= TIRAMISU /\ ~osThrows /\ OnlyAddRemove /\ Quiescent
     /\ \A s \in Subs : removeCalls[s] <= 1)
  => (getIsListening <=> getListenerCount > 0)

\* C5: with no other call made, while two addAccessibilityServicesListener
\* calls are both unresolved exactly one native startListening is in flight,
\* and once both have resolved to a subscription listenerCount is 2.
C5_TwoAddsOneArm ==
  (Android /\ OnlyAddRemove /\ \A s \in Subs : removeCalls[s] = 0)
  => /\ (pc[1] = "arming" /\ pc[2] = "arming") => StartsInFlight = 1
     /\ (pc[1] = "returned" /\ pc[2] = "returned"
           /\ \A s \in Subs : s > 2 => pc[s] = "idle") => listenerCount = 2

\* C6: the arm and disarm calls the wrapper issues on its own account (for
\* add and remove()) are never in flight two at a time.
C6_SingleInFlight == OnlyAddRemove => InFlight <= 1

\* The wrapper's stopListening() resolves in this step.
StopResolves ==
  /\ respQ # <<>>
  /\ Head(respQ).by = "stopW"
  /\ Head(respQ).ok
  /\ respQ' = Tail(respQ)

\* No native startListening issued after the stopListening() call that is
\* now resolving has been executed: the bridge is FIFO, so the settlement of
\* a start issued before that call has already left respQ.
NoLaterStart == \A i \in 1..Len(respQ) : respQ[i].op # "start"

\* C7: when stopListening() resolves, getListenerCount() is 0 and
\* getIsListening() is false, whatever calls came before it and however
\* many subscriptions existed.
C7_StopClearsAll ==
  [][StopResolves =>
       /\ getListenerCount' = 0
       /\ NoLaterStart => ~getIsListening']_vars

\* A stopListening() has resolved while subscriptions existed.
C7_Witness ==
  Android /\ tornDown # {} /\ listenerCount = 0 /\ ~isListening /\ Quiescent

\* C8: remove() on a subscription destroyed by a completed stopListening()
\* changes neither listenerCount nor the arming state and issues no native
\* call.
C8_DestroyedRemoveIsInert ==
  [][\A s \in tornDown :
       RemoveCalled(s) =>
         /\ listenerCount' = listenerCount
         /\ isListening' = isListening
         /\ nativeQ' = nativeQ]_vars

\* C9: listenerCount equals the size of the listeners array, and the array
\* holds only subscriptions whose callback is still attached.
C9_CountIsCardinality ==
  /\ listenerCount = Len(listeners)
  /\ \A i \in 1..Len(listeners) : listeners[i] \in registered

\* C10: an addAccessibilityServicesListener call whose arm fails changes
\* neither listenerCount, nor the listeners array, nor the registered
\* callbacks: not when it issues the arm, and not when the failure settles.
C10_FailedArmChangesNothing ==
  [][\A s \in Subs :
       (\/ pc[s] = "idle" /\ pc'[s] = "arming"
        \/ pc[s] = "arming" /\ pc'[s] = "null")
       => /\ listenerCount' = listenerCount
          /\ listeners' = listeners
          /\ registered' = registered]_vars

\* An add call issued an arm, the arm failed and the call returned null.
C10_Witness ==
  \E s \in Subs :
    /\ Android /\ pc[s] = "null"
    /\ s \notin registered

\* C11: on Android an arm failure is surfaced to the caller of
\* addAccessibilityServicesListener as a rejection; the call resolves to
\* null only on an unsupported platform.
C11_NullOnlyWhenUnsupported ==
  \A s \in Subs : pc[s] = "null" => ~Android

\* The stopListening issued by a remove() settles in this step, as a failure.
RemoveDisarmFails ==
  /\ respQ # <<>>
  /\ Head(respQ).by = "remove"
  /\ ~Head(respQ).ok
  /\ respQ' = Tail(respQ)

\* C12: remove() raises nothing and detaches and uncounts its subscription
\* whether or not the disarm it triggers will fail, and the failure of that
\* disarm, when it settles, raises nothing and changes nothing.
C12_RemoveSucceedsDespiteDisarmFailure ==
  [][(\A s \in Subs :
        (RemoveCalled(s) /\ Android /\ s \in registered) =>
          /\ raised' = "none"
          /\ registered' = registered \ {s}
          /\ listenerCount' = listenerCount - 1)
     /\ (RemoveDisarmFails =>
          /\ raised' = "none"
          /\ UNCHANGED <<listenerCount, listeners, registered, nativeQ>>)]_vars

\* The last subscription was removed and the disarm this triggered failed:
\* its rejection is about to settle, the monitor is still armed.
C12_Witness ==
  /\ respQ # <<>>
  /\ Head(respQ).by = "remove"
  /\ ~Head(respQ).ok
  /\ registered = {}
  /\ listenerCount = 0
  /\ isListening

\* C13 as claimed: stopListening() never rejects.
C13_StopNeverRejects == raised # "stopListening"

\* The wrapper's stopListening() settles in this step on a failed disarm.
StopFails ==
  /\ respQ # <<>>
  /\ Head(respQ).by = "stopW"
  /\ ~Head(respQ).ok
  /\ respQ' = Tail(respQ)

\* C13 as amended: stopListening() resolves when the native disarm succeeds,
\* and when the native disarm fails it rejects with that error and leaves
\* listenerCount, the subscriptions and their callbacks as they were.
C13_StopRejectsOnDisarmFailure ==
  [][(StopResolves => raised' = "none")
     /\ (StopFails =>
          /\ raised' = "stopListening"
          /\ UNCHANGED <<listenerCount, listeners, registered, nativeQ>>)]_vars

\* A stopListening() has just rejected while a subscription was held and the
\* monitor stayed armed.
C13_Witness ==
  raised = "stopListening" /\ isListening /\ listenerCount > 0

\* How many times the latest emit invoked callback c.
Invocations(c) == Cardinality({i \in 1..Len(fanCalls) : fanCalls[i].cb = c})

\* The latest emit went to three attached callbacks, exactly one of which
\* throws.
EmittedToThreeOneThrowing ==
  /\ Len(fanRegs) = 3
  /\ fanCalls # <<>>
  /\ Cardinality({i \in 1..3 : fanRegs[i] \in fanThrows}) = 1

\* C14: when one of three subscribers throws during the fan-out of an event,
\* each of the other two is invoked exactly once and no exception leaves the
\* emit.
C14_FanOutIsolatesThrowingCallback ==
  EmittedToThreeOneThrowing =>
    /\ \A i \in 1..3 : fanRegs[i] \notin fanThrows => Invocations(fanRegs[i]) = 1
    /\ ~fanEscaped

OsChangeStep == osEnabled' # osEnabled

DeliverStep == eventQ # <<>> /\ eventQ' = Tail(eventQ)

\* C15: every OS-level change while the monitor is armed produces exactly one
\* AccessibilityServicesChanged emission, and the dispatch of an emission
\* invokes every callback registered at that moment exactly once, in
\* registration order, with the snapshot of that emission.
C15_ChangeReachesEveryCallbackOnce ==
  [][/\ (OsChangeStep /\ isListening) => eventQ' = Append(eventQ, osEnabled')
     /\ DeliverStep =>
          fanCalls' = [i \in 1..Len(RegisteredInOrder) |->
                         Invoke(RegisteredInOrder[i], Head(eventQ))]]_vars

\* The same, for the dispatches in which no registered callback throws.
C15_HoldsWhenNoCallbackThrows ==
  [][/\ (OsChangeStep /\ isListening) => eventQ' = Append(eventQ, osEnabled')
     /\ (DeliverStep /\ registered \cap fanThrows = {}) =>
          fanCalls' = [i \in 1..Len(RegisteredInOrder) |->
                         Invoke(RegisteredInOrder[i], Head(eventQ))]]_vars

\* C16: once remove() has returned for a subscription, its callback is
\* detached and no later dispatch invokes it, the dispatches of events that
\* fire before the native disarm completes included.
C16_RemovedCallbackNeverInvoked ==
  [][\A s \in Subs :
       removeCalls'[s] >= 1 =>
         /\ s \notin registered'
         /\ \A i \in 1..Len(fanCalls') : fanCalls'[i].cb # s]_vars

\* A subscription has been removed, the disarm its removal fired has not run
\* yet, and a change event that fired meanwhile has just been dispatched.
C16_Witness ==
  /\ \E s \in Subs : removeCalls[s] >= 1
  /\ isListening
  /\ \E i \in 1..Len(nativeQ) : nativeQ[i].by = "remove"
  /\ eventQ # <<>>

ArmResolvedFor(s) ==
  /\ respQ # <<>>
  /\ Head(respQ) = Resp(Call("start", "add", s), TRUE)
  /\ respQ' = Tail(respQ)

\* C17: addAccessibilityServicesListener called with no active listener
\* issues the native arm call and registers nothing; while the call is in
\* flight the subscription is neither registered nor held nor counted; the
\* callback is registered and listenerCount incremented only in the step
\* that resumes from the successfully resolved arm call.
C17_ArmsBeforeCounting ==
  [][\A s \in Subs :
       /\ (Android /\ listenerCount = 0 /\ pc[s] = "idle" /\ pc'[s] # "idle") =>
            /\ pc'[s] = "arming"
            /\ nativeQ' = Append(nativeQ, Call("start", "add", s))
            /\ UNCHANGED jsVars
       /\ pc'[s] = "arming" =>
            /\ s \notin registered'
            /\ \A i \in 1..Len(listeners') : listeners'[i] # s
       /\ (pc[s] = "arming" /\ s \in registered') =>
            /\ ArmResolvedFor(s)
            /\ listenerCount' = listenerCount + 1]_vars

\* The arm call issued by an add has resolved and the add is about to resume:
\* the monitor is armed and nothing is counted yet.
C17_Witness ==
  \E s \in Subs :
    /\ pc[s] = "arming"
    /\ respQ # <<>>
    /\ Head(respQ) = Resp(Call("start", "add", s), TRUE)
    /\ isListening
    /\ listenerCount = 0
    /\ registered = {}

StartExecutesWhileArmed ==
  /\ nativeQ # <<>>
  /\ Head(nativeQ).op = "start"
  /\ isListening
  /\ nativeQ' = Tail(nativeQ)

StartCalled == nativeQ' = Append(nativeQ, Call("start", "startW", 0))

StartSettles ==
  /\ respQ # <<>>
  /\ Head(respQ).by = "startW"
  /\ respQ' = Tail(respQ)

\* C18: startListening() called while the monitor is armed resolves
\* successfully, registers no further OS listener and leaves isListening, the
\* monitor handle and listenerCount as they were, in the wrapper's call, in
\* the native method and in the settlement of the promise.
C18_StartWhileArmedIsNoop ==
  [][/\ StartCalled => UNCHANGED <<jsVars, nativeVars>>
     /\ StartExecutesWhileArmed =>
          /\ respQ' = Append(respQ, Resp(Head(nativeQ), TRUE))
          /\ UNCHANGED <<isListening, handle, osListeners, listenerCount>>
     /\ (StartSettles /\ Head(respQ).ok) =>
          /\ raised' = "none"
          /\ UNCHANGED <<isListening, handle, osListeners, listenerCount>>]_vars

\* startListening() was called on an armed monitor and has resolved.
C18_Witness ==
  /\ isListening
  /\ Cardinality(osListeners) = 1
  /\ Len(respQ) = 2
  /\ respQ[1].op = "start" /\ respQ[1].ok
  /\ respQ[2] = Resp(Call("start", "startW", 0), TRUE)

NoStopSince == \A i \in 1..Len(respQ) : respQ[i].op # "stop"

\* C19 as stated: startListening() registers no callback and leaves
\* listenerCount unchanged, and once it has resolved successfully (and no
\* stop has run since) getIsListening() reports true.
C19_StartArmsWithoutSubscribing ==
  [][/\ StartCalled => UNCHANGED jsVars
     /\ (StartSettles /\ Head(respQ).ok /\ NoStopSince) =>
          /\ UNCHANGED jsVars
          /\ getIsListening']_vars

\* C19 amended: the same on API level 33 and above, where the OS has the
\* listener the monitor is built on.
C19_StartArmsOnTiramisu ==
  [][/\ StartCalled => UNCHANGED jsVars
     /\ (StartSettles /\ Head(respQ).ok /\ NoStopSince
           /\ sdkInt >= TIRAMISU) =>
          /\ UNCHANGED jsVars
          /\ getIsListening']_vars

\* startListening() called with no subscriber has resolved on API 33: the
\* monitor is armed and nothing is registered or counted.
C19_Witness ==
  /\ sdkInt >= TIRAMISU
  /\ \A s \in Subs : pc[s] = "idle"
  /\ respQ # <<>>
  /\ Head(respQ) = Resp(Call("start", "startW", 0), TRUE)
  /\ getIsListening
  /\ listenerCount = 0
  /\ registered = {}

StopCalled == nativeQ' = Append(nativeQ, Call("stop", "stopW", 0))

StopExecutesWhileDisarmed ==
  /\ nativeQ # <<>>
  /\ Head(nativeQ).op = "stop"
  /\ ~isListening
  /\ nativeQ' = Tail(nativeQ)

StopSettles ==
  /\ respQ # <<>>
  /\ Head(respQ).by = "stopW"
  /\ respQ' = Tail(respQ)

\* C20: stopListening() called while the monitor is disarmed and no
\* subscription exists resolves successfully and leaves listenerCount, the
\* listeners collection and the native arming state as they were, in the
\* wrapper's call, in the native method (which resolves) and in the
\* continuation of the resolved call.
C20_StopWithNothingToStopIsNoop ==
  [][/\ StopCalled => UNCHANGED <<jsVars, nativeVars>>
     /\ StopExecutesWhileDisarmed =>
          /\ respQ' = Append(respQ, Resp(Head(nativeQ), TRUE))
          /\ UNCHANGED nativeVars
     /\ (StopSettles /\ idleStop) =>
          /\ Head(respQ).ok
          /\ raised' = "none"
          /\ UNCHANGED <<listenerCount, listeners, nativeVars>>]_vars

\* The same from the states in which the wrapper holds nothing at all: an
\* empty listeners array and a listenerCount of 0.
C20_HoldsWhenNothingIsHeld ==
  [][/\ StopCalled => UNCHANGED <<jsVars, nativeVars>>
     /\ StopExecutesWhileDisarmed =>
          /\ respQ' = Append(respQ, Resp(Head(nativeQ), TRUE))
          /\ UNCHANGED nativeVars
     /\ (StopSettles /\ idleStop /\ listeners = <<>> /\ listenerCount = 0) =>
          /\ Head(respQ).ok
          /\ raised' = "none"
          /\ UNCHANGED <<listenerCount, listeners, nativeVars, nativeQ>>]_vars

DestroyStep == ~destroyed /\ destroyed'

\* C21: after onCatalystInstanceDestroy no OS change listener registered by
\* the module remains, isListening is false and the handle is null, and no
\* exception has escaped the teardown.
C21_TeardownDisarms ==
  [][DestroyStep =>
       /\ osListeners' = {}
       /\ ~isListening'
       /\ handle' = NULL
       /\ raised' = "none"]_vars

\* The same on a device whose AccessibilityManager calls do not throw.
C21_HoldsWhenOsCallsSucceed ==
  [][(DestroyStep /\ ~osThrows) =>
       /\ osListeners' = {}
       /\ ~isListening'
       /\ handle' = NULL
       /\ raised' = "none"]_vars

\* C22: on a platform other than Android every public operation resolves or
\* returns its empty identity value and none raises or rejects; listenerCount
\* stays 0 and no native call is issued.
C22_UnsupportedPlatformIsInert ==
  platform # "android" =>
    /\ listenerCount = 0
    /\ getListenerCount = 0
    /\ ~getIsListening
    /\ nativeQ = <<>> /\ respQ = <<>>
    /\ raised = "none"
    /\ \A s \in Subs : pc[s] \in {"idle", "null"}
    /\ qResult.status # "rejected"
    /\ qResult.op = "getEnabledAccessibilityServices" => qResult.value = <<>>
    /\ qResult.op = "hasEnabledAccessibilityServices" => qResult.value = FALSE

\* The same when the two queries are called as methods of the wrapper.
C22_HoldsForMethodCalls ==
  (platform # "android" /\ qResult.bound) =>
    /\ listenerCount = 0
    /\ getListenerCount = 0
    /\ ~getIsListening
    /\ nativeQ = <<>> /\ respQ = <<>>
    /\ raised = "none"
    /\ \A s \in Subs : pc[s] \in {"idle", "null"}
    /\ qResult.status # "rejected"
    /\ qResult.op = "getEnabledAccessibilityServices" => qResult.value = <<>>
    /\ qResult.op = "hasEnabledAccessibilityServices" => qResult.value = FALSE

\* C23: in every state of the native module the handle is non-null exactly
\* when isListening is true, after failed startListening and stopListening
\* calls too.
C23_HandleIffListening == (handle # NULL) <=> isListening

EnumerationQueried ==
  qResult.op \in {"getEnabledAccessibilityServices",
                  "hasEnabledAccessibilityServices"}

\* C24: when the OS enumeration throws during getEnabledAccessibilityServices
\* or hasEnabledAccessibilityServices, the query is rejected, not resolved.
C24_EnumerationFailureRejects ==
  (Android /\ enumThrows /\ EnumerationQueried) => qResult.status = "rejected"

\* C25: getEnabledAccessibilityServices returns one entry per enabled
\* service, in the OS order, and an entry lacks its icon exactly when the
\* icon of that service could not be resolved.
C25_IconFailureKeepsEntry ==
  (Android /\ ~enumThrows /\ qResult.op = "getEnabledAccessibilityServices") =>
    /\ qResult.status = "resolved"
    /\ Len(qResult.value) = Len(osServices)
    /\ \A i \in 1..Len(osServices) :
         /\ qResult.value[i].id = i
         /\ ("appIcon" \in DOMAIN qResult.value[i]) <=> osServices[i].iconOk

\* Two or more services, the icon of exactly one of them fails, and the list
\* has been queried.
C25_Witness ==
  /\ Android /\ ~enumThrows
  /\ qResult.op = "getEnabledAccessibilityServices"
  /\ Len(osServices) >= 2
  /\ Cardinality({i \in 1..Len(osServices) : ~osServices[i].iconOk}) = 1

\* C26: whenever hasEnabledAccessibilityServices() resolves, its value is
\* that of (getEnabledAccessibilityServices()).length > 0 on the same OS
\* state.
C26_HasIsNonEmptyGet ==
  (qResult.op = "hasEnabledAccessibilityServices"
     /\ qResult.status = "resolved") =>
    LET got == getEnabledAccessibilityServices(qResult.bound)
    IN /\ got.status = "resolved"
       /\ qResult.value = (Len(got.value) > 0)

\* hasEnabledAccessibilityServices() has resolved true on a device with
\* enabled services.
C26_Witness ==
  /\ Android
  /\ qResult.op = "hasEnabledAccessibilityServices"
  /\ qResult.status = "resolved"
  /\ qResult.value = TRUE
  /\ osServices # <<>>

Occurrences(apps, packageName) ==
  Cardinality({i \in 1..Len(apps) : apps[i] = packageName})

SeedPackages ==
  {DEFAULT_REMOTE_ACCESS_APPS[i] : i \in 1..Len(DEFAULT_REMOTE_ACCESS_APPS)}

CustomPackageSet == {customPackages[i] : i \in 1..Len(customPackages)}

AppsQueried == qResult.op = "getInstalledRemoteAccessApps"

\* C27: the candidate list of getInstalledRemoteAccessApps holds every seed
\* package and every custom package exactly once, and nothing else.
C27_CandidatesHaveNoDuplicates ==
  AppsQueried =>
    /\ \A p \in SeedPackages \cup CustomPackageSet :
         Occurrences(getRemoteAccessApps, p) = 1
    /\ \A i \in 1..Len(getRemoteAccessApps) :
         getRemoteAccessApps[i] \in SeedPackages \cup CustomPackageSet

\* The query has run with a custom list that repeats a package and names a
\* seed package.
C27_Witness ==
  /\ AppsQueried
  /\ Len(customPackages) = 2
  /\ customPackages[1] = customPackages[2]
  /\ customPackages[1] \in SeedPackages

InstalledCandidates ==
  SelectSeq(getRemoteAccessApps, LAMBDA p : p \in installedPkgs)

\* C28: getInstalledRemoteAccessApps returns exactly the installed
\* candidates; one whose name the registry cannot resolve is returned with
\* appName equal to its packageName, next to the others.
C28_InstalledSubsetWithNameFallback ==
  AppsQueried =>
    /\ qResult.status = "resolved"
    /\ Len(qResult.value) = Len(InstalledCandidates)
    /\ \A i \in 1..Len(InstalledCandidates) :
         LET p == InstalledCandidates[i]
         IN /\ qResult.value[i].packageName = p
            /\ qResult.value[i].appName =
                 IF p \in unresolvable THEN p ELSE Label(p)

\* The same when the name of every installed candidate resolves.
C28_HoldsWhenNamesResolve ==
  (AppsQueried /\ unresolvable = {}) =>
    /\ qResult.status = "resolved"
    /\ Len(qResult.value) = Len(InstalledCandidates)
    /\ \A i \in 1..Len(InstalledCandidates) :
         LET p == InstalledCandidates[i]
         IN /\ qResult.value[i].packageName = p
            /\ qResult.value[i].appName = Label(p)

\* The labels of the set bits of ft in the order Spoken, Haptic, Audible,
\* Visual, Generic, Braille, and the single "None" when no bit is set.
LabelsOfSetBits(ft) ==
  LET set == SelectSeq(<<1, 2, 3, 4, 5, 6>>,
                       LAMBDA b : (ft \div 2 ^ (b - 1)) % 2 = 1)
  IN IF Len(set) = 0 THEN <<"None">>
     ELSE [j \in 1..Len(set) |-> FeedbackLabels[set[j]]]

ServicesReported ==
  /\ qResult.op = "getEnabledAccessibilityServices"
  /\ qResult.status = "resolved"
  /\ platform = "android"

\* C29: for every feedbackType in 0..63 the feedback names reported for a
\* service are the labels of exactly the set bits in the fixed order, the
\* single "None" when no bit is set, and never empty.
C29_ReportedNamesAreLabels ==
  ServicesReported =>
    \A i \in 1..Len(qResult.value) :
      /\ qResult.value[i].feedbackTypeNames = LabelsOfSetBits(feedbackType)
      /\ qResult.value[i].feedbackTypeNames # <<>>

\* The helper getFeedbackTypeNames, which no reported field uses, computes
\* exactly these labels.
C29_HelperComputesLabels ==
  /\ getFeedbackTypeNames(feedbackType) = LabelsOfSetBits(feedbackType)
  /\ getFeedbackTypeNames(feedbackType) # <<>>

\* C30: openAccessibilitySettings never throws to its caller; a failed
\* launch of the settings screen is swallowed and the call is a no-op.
C30_OpenSettingsNeverThrows ==
  qResult.op = "openAccessibilitySettings" => qResult.status = "returned"

\* The same when the settings activity can be started.
C30_HoldsWhenLaunchSucceeds ==
  (qResult.op = "openAccessibilitySettings" /\ ~launchFails) =>
    qResult.status = "returned"

\* A platform on which arming succeeds: Android from API 33 on, with no OS
\* call failing.
ArmingSucceeds == Android /\ sdkInt >= TIRAMISU /\ ~osThrows

\* C31: once every native call has settled on a platform where arming
\* succeeds, a callback registered on the change-event channel implies an
\* armed monitor.
C31_SubscriberImpliesArmed ==
  (ArmingSucceeds /\ Quiescent) => (registered # {} => isListening)

\* Subscription t was created by the add that followed the remove() of
\* subscription s, the last one then (every earlier subscription removed
\* once); nothing was called since, and every call has settled.
RearmedBy(s, t) ==
  /\ t = s + 1
  /\ \A u \in Subs : u < t => removeCalls[u] = 1
  /\ pc[t] = "returned"
  /\ removeCalls[t] = 0
  /\ Quiescent

\* C32 as stated: remove() of the last subscription followed by an add
\* leaves, once both native calls have settled, an armed monitor and
\* listenerCount = 1.
C32_RemoveThenAddRearms ==
  \A s, t \in Subs :
    (Android /\ RearmedBy(s, t)) => (isListening /\ listenerCount = 1)

\* C32 amended: the same on a device that has the monitor primitive; below
\* API 33 listenerCount is 1 and the monitor stays disarmed.
C32_RemoveThenAddRearmsOnTiramisu ==
  \A s, t \in Subs :
    (Android /\ RearmedBy(s, t)) =>
      /\ listenerCount = 1
      /\ isListening <=> sdkInt >= TIRAMISU

C32_Witness ==
  /\ Android
  /\ sdkInt >= TIRAMISU
  /\ RearmedBy(1, 2)
  /\ isListening
  /\ listenerCount = 1

\* C33: at most one change listener is registered with the accessibility
\* manager, and a registered listener is the one the module's handle
\* refers to, over startListening, stopListening and teardown.
C33_AtMostOneOsListener ==
  /\ Cardinality(osListeners) <= 1
  /\ \A l \in osListeners : handle # NULL /\ l = handle

\* The monitor was disarmed and armed again: the settled disarm is still
\* waiting for its continuation and the new listener is the registered one.
C33_Witness ==
  /\ isListening
  /\ osListeners = {handle}
  /\ \E i \in 1..Len(respQ) : respQ[i].op = "stop" /\ respQ[i].ok
  /\ \E i \in 1..Len(respQ) : respQ[i].op = "start" /\ respQ[i].ok

StartExecutes ==
  /\ nativeQ # <<>>
  /\ Head(nativeQ).op = "start"
  /\ nativeQ' = Tail(nativeQ)

AddResumes(s) == pc[s] = "arming" /\ pc'[s] # "arming"

\* C34: below API 33 no step arms the monitor; a native startListening
\* resolves unless an OS call fails; an add whose arm resolved returns a
\* subscription and increments listenerCount, so listenerCount > 0 while
\* getIsListening() is false.
C34_NoPrimitiveNoArm ==
  [][(Android /\ sdkInt < TIRAMISU) =>
       /\ ~isListening'
       /\ osListeners' = {}
       /\ (StartExecutes /\ ~osThrows) =>
            respQ' = Append(respQ, Resp(Head(nativeQ), TRUE))
       /\ \A s \in Subs :
            (AddResumes(s) /\ Head(respQ).ok) =>
              /\ pc'[s] = "returned"
              /\ listenerCount' = listenerCount + 1
              /\ s \in registered'
              /\ ~getIsListening']_vars

\* Below API 33, after a startListening() that resolved, an add has returned
\* a subscription: one listener is counted and the monitor is not armed.
C34_Witness ==
  /\ Android
  /\ sdkInt < TIRAMISU
  /\ manual
  /\ Quiescent
  /\ pc[1] = "returned"
  /\ getListenerCount > 0
  /\ ~getIsListening

\* The wrapper's stopListening() resumes from its awaited native call.
StopResumes ==
  /\ respQ # <<>>
  /\ Head(respQ).by = "stopW"
  /\ respQ' = Tail(respQ)

\* C35: one stopListening() of the wrapper issues at most one native
\* stopListening: the one it awaits, and none while it tears down the
\* subscriptions it holds.
C35_StopIssuesOneDisarm ==
  [][/\ StopCalled => Len(nativeQ') = Len(nativeQ) + 1
     /\ StopResumes => nativeQ' = nativeQ]_vars

\* The same for a stopListening() that resumes holding no subscription.
C35_HoldsWithNoSubscription ==
  [][/\ StopCalled => Len(nativeQ') = Len(nativeQ) + 1
     /\ (StopResumes /\ listeners = <<>>) => nativeQ' = nativeQ]_vars

NoDuplicates(names) ==
  \A i, j \in 1..Len(names) : names[i] = names[j] => i = j

PluginRuns == runs' = runs + 1

RequiredPackages == {REQUIRED_PACKAGES[i] : i \in 1..Len(REQUIRED_PACKAGES)}

\* C36: a run of addQueriesPackages on a manifest whose <queries> list has
\* no duplicates leaves a list without duplicates, for every customPackages
\* option, and a second run adds nothing.
C36_QueriesStayDistinct ==
  [][(PluginRuns /\ NoDuplicates(manifest.queries)) =>
       /\ NoDuplicates(manifest'.queries)
       /\ runs >= 1 => manifest'.queries = manifest.queries]_vars

\* The same when the custom packages are non-empty names that neither
\* repeat nor appear in REQUIRED_PACKAGES.
C36_HoldsForNewDistinctCustoms ==
  [][(/\ PluginRuns
      /\ NoDuplicates(manifest.queries)
      /\ NoDuplicates(options.customPackages)
      /\ \A i \in 1..Len(options.customPackages) :
           /\ options.customPackages[i] \notin RequiredPackages
           /\ options.customPackages[i] # "") =>
       /\ NoDuplicates(manifest'.queries)
       /\ runs >= 1 => manifest'.queries = manifest.queries]_vars

CustomEntries(metaData) ==
  {i \in 1..Len(metaData) : metaData[i].name = metadataName}

WellFormed(name) ==
  /\ Chars(name) # <<>>
  /\ \A i \in 1..Len(Chars(name)) : Chars(name)[i] # ","
  /\ Chars(name)[1] # " "
  /\ Chars(name)[Len(Chars(name))] # " "

\* metadataBundle.getString(metadataName)
WrittenValue ==
  IF CustomEntries(manifest.metaData) = {} THEN NoValue
  ELSE manifest.metaData[CHOOSE i \in CustomEntries(manifest.metaData) : TRUE].value

ValueWritten ==
  /\ runs >= 1
  /\ manifest.application
  /\ options.customPackages # <<>>

\* C38: for a list of well-formed package names, the value the plugin wrote
\* is parsed by getCustomPackagesFromMetadata into the same names in the
\* same order.
C38_CustomPackagesRoundTrip ==
  (ValueWritten /\ \A i \in 1..Len(options.customPackages) :
                     WellFormed(options.customPackages[i])) =>
    getCustomPackagesFromMetadata(WrittenValue) =
      [i \in 1..Len(options.customPackages) |-> Chars(options.customPackages[i])]

C38_Witness ==
  /\ ValueWritten
  /\ options.customPackages = <<"com.example.one", "com.anydesk.anydeskandroid">>
  /\ Len(getCustomPackagesFromMetadata(WrittenValue)) = 2

\* C39: once the plugin has run, every package of DEFAULT_REMOTE_ACCESS_APPS
\* is declared in the manifest's <queries>, being one of REQUIRED_PACKAGES.
C39_SeedsAreDeclared ==
  runs >= 1 =>
    \A p \in SeedPackages :
      /\ p \in RequiredPackages
      /\ \E i \in 1..Len(manifest.queries) : manifest.queries[i] = p

\* Every package of REQUIRED_PACKAGES is declared once the plugin has run,
\* and is one of the seed packages.
C39_RequiredAreDeclaredSeeds ==
  runs >= 1 =>
    \A p \in RequiredPackages :
      /\ p \in SeedPackages
      /\ \E i \in 1..Len(manifest.queries) : manifest.queries[i] = p
====
